---- MODULE Spec2Model ----
(***************************************************************************)
(* Filesys: the safe file accessor of src/src/resources.py (BASE_DIR,      *)
(* list_files, read_file) and its resource adapter src/src/server.py,      *)
(* over a small POSIX file system.                                         *)
(*                                                                         *)
(* Paths are sequences of component names; <<>> is "/".  A client string   *)
(* is the sequence of its "/"-separated segments, so "" is <<"">>,         *)
(* "/secret.txt" is <<"", "secret.txt">> and "sub/../test.txt" is          *)
(* <<"sub", "..", "test.txt">>.  Texts and byte strings are sequences of   *)
(* code points and of byte values.                                         *)
(***************************************************************************)
EXTENDS Integers, Sequences, FiniteSets, TLC

VARIABLES
    phase,      \* "boot" | "ready" | "failed": module initialisation of resources.py
    BASE_DIR,   \* the resolved root directory (resources.py:8); <<"?">> before it is set
    fs,         \* the file system the process runs on
    call,       \* the request being answered, or NoCall
    outcome,    \* what the accessor did for `call`: a returned envelope or a raised exception
    shadow,     \* the same request answered on a file system that differs outside the root only
    memo,       \* the first outcome of one remembered request since the last file system change
    reqs        \* the frames of the requests served side by side: their locals and position

vars == <<phase, BASE_DIR, fs, call, outcome, shadow, memo, reqs>>

-----------------------------------------------------------------------------
(* Bounds *)

\* modification times are 1..MaxTime
MaxTime == 2

\* how many requests the transport has under way at once
MaxRequests == 2

-----------------------------------------------------------------------------
(* The file system *)

RootName == "base"
HomeDir == <<RootName>>
ChildNames == {"test.txt", ".secret", "sub", "lnk"}
NulName == "a<NUL>b"

\* byte strings a regular file may hold: "", "hi", "e-acute" (2 bytes, 1 character),
\* "\ra\r\n", and a byte that is not UTF-8
SampleBytes == { <<>>, <<104, 105>>, <<195, 169>>, <<13, 97, 13, 10>>, <<255>> }

Absent == [kind |-> "absent"]
Dir == [kind |-> "dir"]
\* a character device that reads as empty, like /dev/null
NullDev == [kind |-> "chardev", mtime |-> 1]
\* a name whose lstat fails with EACCES (it lies behind an unsearchable directory)
NoAccess == [kind |-> "noaccess"]
File(b, t, m) == [kind |-> "file", bytes |-> b, mtime |-> t, mode |-> m]
Link(target) == [kind |-> "link", target |-> target]

ReadableFiles == { File(b, t, "r") : b \in SampleBytes, t \in 1..MaxTime }
LockedFile == File(<<104, 105>>, 1, "-")
NestedFile == File(<<104, 105>>, 1, "r")
OutsidePath == <<"secret.txt">>
LinkOut == Link(<<"", "secret.txt">>)
LinkBack == Link(<<"", RootName, "test.txt">>)

Entries(n) ==
    CASE n = "test.txt" -> {Absent, Dir, NullDev, LockedFile} \cup ReadableFiles
      [] n = ".secret"  -> {Absent} \cup ReadableFiles
      [] n = "sub"      -> {Absent, Dir}
      [] n = "lnk"      -> {Absent, LinkOut}

OutEntries == {Absent, NoAccess, LinkBack, File(<<104, 105>>, 1, "r"), File(<<>>, 2, "r")}

EmptyChildren == [n \in ChildNames |-> Absent]

Parent(p) == IF p = <<>> THEN <<>> ELSE SubSeq(p, 1, Len(p) - 1)

\* the directory entry at canonical path p, symbolic links not followed
Node(f, p) ==
    IF p = <<>> THEN Dir
    ELSE IF p = OutsidePath THEN f.out
    ELSE IF f.root # "dir" THEN Absent
    ELSE IF p = <<RootName>> THEN Dir
    ELSE IF Len(p) = 2 /\ p[1] = RootName /\ p[2] \in ChildNames THEN f.child[p[2]]
    ELSE IF p = <<RootName, "sub", "n.txt">> /\ f.child["sub"].kind = "dir" THEN NestedFile
    ELSE Absent

\* os.lstat of a path whose directory part holds no symbolic link
LstatEntry(n) ==
    IF n.kind = "absent" THEN [err |-> "ENOENT"]
    ELSE IF n.kind = "noaccess" THEN [err |-> "EACCES"]
    ELSE [err |-> "OK", node |-> n]

\* the entry n of a directory whose own lstat gave up
LstatUnder(up, n) ==
    IF up.err # "OK" THEN up
    ELSE IF up.node.kind # "dir" THEN [err |-> "ENOTDIR"]
    ELSE LstatEntry(n)

RECURSIVE Lstat(_, _)
Lstat(f, p) ==
    IF p = <<>> THEN [err |-> "OK", node |-> Dir]
    ELSE LstatUnder(Lstat(f, Parent(p)), Node(f, p))

-----------------------------------------------------------------------------
(* Exceptions *)

Exc(cls, msg) == [cls |-> cls, msg |-> msg]

\* the classes an exception of class c is an instance of
Bases(c) ==
    CASE c \in {"FileNotFoundError", "PermissionError", "IsADirectoryError", "NotADirectoryError"}
            -> {c, "OSError", "Exception", "BaseException"}
      [] c = "UnicodeDecodeError" -> {c, "ValueError", "Exception", "BaseException"}
      [] c = "JSONDecodeError"    -> {c, "ValueError", "Exception", "BaseException"}
      [] c = "KeyError"           -> {c, "LookupError", "Exception", "BaseException"}
      [] OTHER                    -> {c, "Exception", "BaseException"}

RECURSIVE PathStr(_)
PathStr(p) == IF p = <<>> THEN "" ELSE "/" \o Head(p) \o PathStr(Tail(p))

\* the OSError subclass and str() of a failed system call on path p
OSErrorOf(errno, p) ==
    LET at == ": '" \o (IF p = <<>> THEN "/" ELSE PathStr(p)) \o "'" IN
    CASE errno = "ENOENT"  -> Exc("FileNotFoundError", "[Errno 2] No such file or directory" \o at)
      [] errno = "EACCES"  -> Exc("PermissionError", "[Errno 13] Permission denied" \o at)
      [] errno = "EISDIR"  -> Exc("IsADirectoryError", "[Errno 21] Is a directory" \o at)
      [] errno = "ENOTDIR" -> Exc("NotADirectoryError", "[Errno 20] Not a directory" \o at)

-----------------------------------------------------------------------------
(* pathlib *)

IsAbs(segs) == Len(segs) >= 2 /\ segs[1] = ""

\* BASE_DIR / filename: an absolute right operand replaces the left one
Join(base, segs) == IF IsAbs(segs) THEN Tail(segs) ELSE base \o segs

\* os.path.realpath, non-strict: "" and "." are dropped, ".." steps to the parent,
\* a symbolic link is replaced by its target, a name that cannot be lstat-ed is kept
\* where the walk stands after name h, whose lstat gave st, and what is left to walk
WalkName(cur, h, t, st) ==
    IF st.err = "OK" /\ st.node.kind = "link"
    THEN IF IsAbs(st.node.target)
         THEN [cur |-> <<>>, rest |-> Tail(st.node.target) \o t]
         ELSE [cur |-> cur, rest |-> st.node.target \o t]
    ELSE [cur |-> cur \o <<h>>, rest |-> t]

RECURSIVE Walk(_, _, _)
WalkOn(f, w) == Walk(f, w.cur, w.rest)

Walk(f, cur, rest) ==
    IF rest = <<>> THEN [ok |-> TRUE, path |-> cur]
    ELSE IF Head(rest) = NulName
         THEN [ok |-> FALSE, exc |-> Exc("ValueError", "embedded null byte")]
    ELSE WalkOn(f, IF Head(rest) \in {"", "."} THEN [cur |-> cur, rest |-> Tail(rest)]
                   ELSE IF Head(rest) = ".." THEN [cur |-> Parent(cur), rest |-> Tail(rest)]
                   ELSE WalkName(cur, Head(rest), Tail(rest), Lstat(f, cur \o <<Head(rest)>>)))

\* Path.resolve()
resolve(f, p) == Walk(f, <<>>, p)

\* Path.parents
parents(p) == { SubSeq(p, 1, k) : k \in 0..(Len(p) - 1) }

\* os.stat: follows symbolic links
StatAt(f, r) == IF r.ok THEN Lstat(f, r.path) ELSE [err |-> "EINVAL"]

stat(f, p) == StatAt(f, resolve(f, p))

\* Path.is_file(): ENOENT, ENOTDIR, EBADF and ELOOP mean "no"; other errors are raised
S_ISREG(p, st) ==
    IF st.err = "OK" THEN [ok |-> TRUE, value |-> (st.node.kind = "file")]
    ELSE IF st.err \in {"ENOENT", "ENOTDIR", "EBADF", "ELOOP"} THEN [ok |-> TRUE, value |-> FALSE]
    ELSE [ok |-> FALSE, exc |-> OSErrorOf(st.err, p)]

is_file(f, p) == S_ISREG(p, stat(f, p))

\* the names that begin with "."
DotNames == {".secret", ".", ".."}

\* f.name.startswith('.')
startswith_dot(name) == name \in DotNames

\* the sequence s without the elements outside keep
RECURSIVE Only(_, _)
Only(s, keep) ==
    IF s = <<>> THEN <<>>
    ELSE IF Head(s) \in keep THEN <<Head(s)>> \o Only(Tail(s), keep)
    ELSE Only(Tail(s), keep)

\* the orders in which a directory may hand out its names
Orders == { o \in [1..Cardinality(ChildNames) -> ChildNames] :
              \A i, j \in DOMAIN o : i # j => o[i] # o[j] }

\* Path.iterdir(): the names in the directory, in the order the file system
\* yields them (order), or the error of listing it
scandir(f, d, order, st) ==
    IF st.err # "OK" THEN [ok |-> FALSE, exc |-> OSErrorOf(st.err, d)]
    ELSE IF st.node.kind # "dir" THEN [ok |-> FALSE, exc |-> OSErrorOf("ENOTDIR", d)]
    ELSE [ok |-> TRUE,
          names |-> Only(order, { n \in ChildNames : Node(f, d \o <<n>>).kind # "absent" })]

\* one directory iterator made once and shared: empty after the first listing
iterdir_exhausted(f, d, order) ==
    IF memo.set /\ memo.call.op = "list"
    THEN [ok |-> TRUE, names |-> <<>>]
    ELSE scandir(f, d, order, stat(f, d))

iterdir(f, d, order) == scandir(f, d, order, stat(f, d))

-----------------------------------------------------------------------------
(* Text *)

\* bytes.decode("utf-8") for one- and two-byte sequences
\* code point cp followed by the decoding r of the rest
Decoded(cp, r) == IF r.ok THEN [ok |-> TRUE, text |-> <<cp>> \o r.text] ELSE r

RECURSIVE decode(_)
decode(b) ==
    IF b = <<>> THEN [ok |-> TRUE, text |-> <<>>]
    ELSE IF b[1] < 128 THEN Decoded(b[1], decode(Tail(b)))
    ELSE IF b[1] \in 194..223 /\ Len(b) >= 2 /\ b[2] \in 128..191
         THEN Decoded((b[1] - 192) * 64 + (b[2] - 128), decode(SubSeq(b, 3, Len(b))))
    ELSE [ok |-> FALSE]

\* text mode with newline=None: "\r\n" and "\r" are read as "\n"
RECURSIVE universal_newlines(_)
universal_newlines(t) ==
    IF t = <<>> THEN <<>>
    ELSE IF t[1] = 13
         THEN IF Len(t) >= 2 /\ t[2] = 10
              THEN <<10>> \o universal_newlines(SubSeq(t, 3, Len(t)))
              ELSE <<10>> \o universal_newlines(Tail(t))
    ELSE <<t[1]>> \o universal_newlines(Tail(t))

\* open(p, "r"): the bytes of the file, or the error of opening it
OpenAt(p, st) ==
    IF st.err # "OK" THEN [ok |-> FALSE, exc |-> OSErrorOf(st.err, p)]
    ELSE IF st.node.kind = "dir" THEN [ok |-> FALSE, exc |-> OSErrorOf("EISDIR", p)]
    ELSE IF st.node.kind = "chardev" THEN [ok |-> TRUE, bytes |-> <<>>]
    ELSE IF st.node.mode # "r" THEN [ok |-> FALSE, exc |-> OSErrorOf("EACCES", p)]
    ELSE [ok |-> TRUE, bytes |-> st.node.bytes]

open(f, p) == OpenAt(p, stat(f, p))

\* the text of decoded bytes d as text mode hands it out
TextOf(d) ==
    IF ~d.ok
    THEN [ok |-> FALSE, exc |-> Exc("UnicodeDecodeError", "'utf-8' codec can't decode byte")]
    ELSE [ok |-> TRUE, text |-> universal_newlines(d.text)]

ReadOpened(o) == IF ~o.ok THEN o ELSE TextOf(decode(o.bytes))

\* Path.read_text(encoding="utf-8")
read_text(f, p) == ReadOpened(open(f, p))

st_size(node) == IF node.kind = "file" THEN Len(node.bytes) ELSE 0
st_mtime(node) == node.mtime

-----------------------------------------------------------------------------
(* The accessor: src/src/resources.py *)

Return(v, ops) == [kind |-> "return", value |-> v, ops |-> ops]
Raise(e, ops) == [kind |-> "raise", exc |-> e, ops |-> ops]

\* a handler that lets ValueError and RuntimeError through
except_OSError(o) ==
    IF o.kind = "raise" /\ "OSError" \in Bases(o.exc.cls)
    THEN Return([error |-> o.exc.msg], o.ops)
    ELSE o

\* a handler that adds the error to an empty success payload
except_Exception_default(o) ==
    IF o.kind = "raise" /\ "Exception" \in Bases(o.exc.cls)
    THEN Return([files |-> <<>>, error |-> o.exc.msg], o.ops)
    ELSE o

\* except Exception as e: return {"error": str(e)}
except_Exception(o) ==
    IF o.kind = "raise" /\ "Exception" \in Bases(o.exc.cls)
    THEN Return([error |-> o.exc.msg], o.ops)
    ELSE o

\* [f.name for f in ... if f.is_file() and not f.name.startswith('.')]
\* name n, whose is_file() gave t, ahead of the filtered rest
Filtered(n, t, rest) ==
    IF ~t.ok THEN t
    ELSE IF ~rest.ok THEN rest
    ELSE [ok |-> TRUE,
          value |-> (IF t.value /\ ~startswith_dot(n) THEN <<n>> ELSE <<>>) \o rest.value]

RECURSIVE comprehension(_, _, _)
comprehension(f, d, names) ==
    IF names = <<>> THEN [ok |-> TRUE, value |-> <<>>]
    ELSE Filtered(Head(names), is_file(f, d \o <<Head(names)>>), comprehension(f, d, Tail(names)))

ListBuilt(c) ==
    IF ~c.ok THEN Raise(c.exc, <<"iterdir", "is_file">>)
    ELSE Return([files |-> c.value], <<"iterdir", "is_file">>)

ListIterated(f, base, it) ==
    IF ~it.ok THEN Raise(it.exc, <<"iterdir">>)
    ELSE ListBuilt(comprehension(f, base, it.names))

\* the try block of list_files
list_files_try(f, base, order) == ListIterated(f, base, iterdir(f, base, order))

list_files(f, base, order) == except_Exception(list_files_try(f, base, order))

\* a containment check that also lets the root itself through
contained_or_root(base, target_path) == base = target_path \/ base \in parents(target_path)

\* BASE_DIR in target_path.parents
contained(base, target_path) == base \in parents(target_path)

\* the try block of read_file
\* lines 31-37: the success envelope from the text c and the stat result s
ReadEnvelope(target_path, c, s) ==
    IF ~c.ok THEN Raise(c.exc, <<"resolve", "parents", "read_text">>)
    ELSE IF s.err # "OK"
         THEN Raise(OSErrorOf(s.err, target_path), <<"resolve", "parents", "read_text", "stat">>)
    ELSE Return([content |-> c.text,
                 metadata |-> [size |-> st_size(s.node), modified |-> st_mtime(s.node)]],
                <<"resolve", "parents", "read_text", "stat", "stat">>)

\* a read that also refuses names that begin with "."
ReadResolved_visible(f, base, target_path) ==
    IF ~contained(base, target_path) \/ startswith_dot(target_path[Len(target_path)])
    THEN Return([error |-> "Access denied"], <<"resolve", "parents">>)
    ELSE ReadEnvelope(target_path, read_text(f, target_path), stat(f, target_path))

\* a read that looks for the target before it checks containment
ReadResolved_probing(f, base, target_path) ==
    IF stat(f, target_path).err = "ENOENT"
    THEN Raise(OSErrorOf("ENOENT", target_path), <<"resolve", "stat">>)
    ELSE IF ~contained(base, target_path)
         THEN Return([error |-> "Access denied"], <<"resolve", "parents">>)
    ELSE ReadEnvelope(target_path, read_text(f, target_path), stat(f, target_path))

\* lines 27-37: the containment check on the resolved target_path, then the read
ReadResolved(f, base, target_path) ==
    IF ~contained(base, target_path)
    THEN Return([error |-> "Access denied"], <<"resolve", "parents">>)
    ELSE ReadEnvelope(target_path, read_text(f, target_path), stat(f, target_path))

ReadTarget(f, base, r) ==
    IF ~r.ok THEN Raise(r.exc, <<"resolve">>) ELSE ReadResolved(f, base, r.path)

\* the try block of read_file
read_file_try(f, base, filename) == ReadTarget(f, base, resolve(f, Join(base, filename)))

read_file(f, base, filename) == except_Exception(read_file_try(f, base, filename))

-----------------------------------------------------------------------------
(* Module initialisation: resources.py lines 5-8 *)

ConfigDirs == { <<"", RootName>>, <<"~">>, <<"", RootName, "sub", "..">> }

\* what config/config.json may be
Configs == { [status |-> "nofile"], [status |-> "badjson"], [status |-> "nokey"] }
           \cup { [status |-> "ok", directory |-> d] : d \in ConfigDirs }

\* Path.expanduser()
expanduser(segs) ==
    IF segs # <<>> /\ Head(segs) = "~" THEN <<"">> \o HomeDir \o Tail(segs) ELSE segs

Resolved(r) ==
    IF r.ok THEN Return(r.path, <<"open", "json.load", "resolve">>)
    ELSE Raise(r.exc, <<"open", "json.load", "resolve">>)

\* open(config_path), json.load, config["directory"], then expanduser().resolve()
load_config(f, cfg) ==
    CASE cfg.status = "nofile"  -> Raise(Exc("FileNotFoundError", "[Errno 2] No such file or directory: 'config/config.json'"), <<"open">>)
      [] cfg.status = "badjson" -> Raise(Exc("JSONDecodeError", "Expecting value"), <<"open", "json.load">>)
      [] cfg.status = "nokey"   -> Raise(Exc("KeyError", "'directory'"), <<"open", "json.load">>)
      [] cfg.status = "ok"      -> Resolved(resolve(f, Join(<<>>, expanduser(cfg.directory))))

-----------------------------------------------------------------------------
(* The state machine *)

Unset == <<"?">>
NoCall == [op |-> "none"]
NoOutcome == [kind |-> "none"]
NoShadow == [kind |-> "none"]
NoMemo == [set |-> FALSE]

\* the requests under way, and the frame of a function call: its locals and
\* the step it has reached (pc)
Slots == 1..MaxRequests
Frame(op, filename, pc) ==
    [op |-> op, filename |-> filename, pc |-> pc, target_path |-> Unset, content |-> <<>>,
     size |-> 0, names |-> <<>>, files |-> <<>>, mixed |-> FALSE, result |-> NoOutcome]
Free == Frame("none", <<>>, "free")

\* entries the file system takes while requests are being repeated
IdemEntries ==
    { Absent, Dir, LinkOut, File(<<104, 105>>, 1, "r"), File(<<195, 169>>, 2, "r") }

\* what a client may send as filename
Filenames ==
    { <<"">>, <<".">>, <<"..">>, <<"..", "secret.txt">>, <<"", "secret.txt">>, <<"lnk">>,
      <<"test.txt">>, <<".secret">>, <<"sub">>, <<"sub", "n.txt">>, <<"sub", "..", "test.txt">>,
      <<"", RootName, "test.txt">>, <<"nonexistent.txt">>, <<NulName>> }

InitialFs == { [root |-> r, child |-> EmptyChildren, out |-> Absent] : r \in {"dir", "missing"} }

Init ==
    /\ phase = "boot"
    /\ BASE_DIR = Unset
    /\ fs \in InitialFs
    /\ call = NoCall
    /\ outcome = NoOutcome
    /\ shadow = NoShadow
    /\ memo = NoMemo
    /\ reqs = [s \in Slots |-> Free]

\* importing src.resources
Initialize ==
    /\ phase = "boot"
    /\ \E cfg \in Configs : \E o \in {load_config(fs, cfg)} :
          IF o.kind = "return"
          THEN phase' = "ready" /\ BASE_DIR' = o.value
          ELSE phase' = "failed" /\ BASE_DIR' = BASE_DIR
    /\ UNCHANGED <<fs, call, outcome, shadow, memo, reqs>>

Idle == phase = "ready" /\ call = NoCall /\ \A s \in Slots : reqs[s] = Free

\* the environment: something else changes the file system between two requests
Changed(newfs) ==
    /\ Idle
    /\ newfs # fs
    /\ fs' = newfs
    /\ memo' = NoMemo
    /\ UNCHANGED <<phase, BASE_DIR, call, outcome, shadow, reqs>>

MakeRoot == fs.root = "missing" /\ Changed([fs EXCEPT !.root = "dir"])

RemoveRoot == fs.root = "dir" /\ Changed([fs EXCEPT !.root = "missing", !.child = EmptyChildren])

WriteChild(allowed) ==
    /\ fs.root = "dir"
    /\ \E n \in ChildNames : \E e \in Entries(n) \cap allowed :
          Changed([fs EXCEPT !.child[n] = e])

WriteOutside(allowed) == \E e \in OutEntries \cap allowed : Changed([fs EXCEPT !.out = e])

\* the first outcome of a request is remembered, or not, when track is set
\* and whether a different request has been answered after it (others)
Remember(track, c, o) ==
    IF ~track THEN memo' = memo
    ELSE IF ~memo.set
         THEN memo' \in {NoMemo, [set |-> TRUE, call |-> c, outcome |-> o, others |-> FALSE]}
    ELSE memo' = [memo EXCEPT !.others = @ \/ (c # memo.call)]

\* files://list
list_files_resource(track) ==
    /\ Idle
    /\ \E order \in Orders : \E o \in {list_files(fs, BASE_DIR, order)} :
          /\ call' = [op |-> "list"]
          /\ outcome' = o
          /\ shadow' = NoShadow
          /\ Remember(track, [op |-> "list"], o)
    /\ UNCHANGED <<phase, BASE_DIR, fs, reqs>>

EscapesAt(base, r) == r.ok /\ base \notin parents(r.path)

\* does filename leave the root on file system f
Escapes(f, base, filename) == EscapesAt(base, resolve(f, Join(base, filename)))

\* the same request on file system g, which has another entry at OutsidePath
Elsewhere(g, base, filename) ==
    [kind |-> "shadow",
     present |-> (g.out.kind = "file"),
     escapes |-> Escapes(g, base, filename),
     outcome |-> read_file(g, base, filename)]

\* files://read/{filename}
read_file_resource(track) ==
    /\ Idle
    /\ \E filename \in Filenames, alt \in OutEntries :
          \E o \in {read_file(fs, BASE_DIR, filename)} :
              /\ call' = [op |-> "read", filename |-> filename]
              /\ outcome' = o
              /\ shadow' = Elsewhere([fs EXCEPT !.out = alt], BASE_DIR, filename)
              /\ Remember(track, [op |-> "read", filename |-> filename], o)
    /\ UNCHANGED <<phase, BASE_DIR, fs, reqs>>

\* the transport takes the response
Deliver ==
    /\ phase = "ready"
    /\ call # NoCall
    /\ call' = NoCall
    /\ outcome' = NoOutcome
    /\ shadow' = NoShadow
    /\ UNCHANGED <<phase, BASE_DIR, fs, memo, reqs>>

AllEntries == UNION { Entries(n) : n \in ChildNames } \cup OutEntries

Next ==
    \/ Initialize
    \/ MakeRoot
    \/ RemoveRoot
    \/ WriteChild(AllEntries)
    \/ WriteOutside(AllEntries)
    \/ list_files_resource(FALSE)
    \/ read_file_resource(FALSE)
    \/ Deliver

Spec == Init /\ [][Next]_vars

\* repeated requests: the first outcome of a request is kept for comparison
NextIdem ==
    \/ Initialize
    \/ MakeRoot
    \/ RemoveRoot
    \/ WriteChild(IdemEntries)
    \/ WriteOutside(IdemEntries)
    \/ list_files_resource(TRUE)
    \/ read_file_resource(TRUE)
    \/ Deliver

SpecIdem == Init /\ [][NextIdem]_vars

-----------------------------------------------------------------------------
(* Requests served side by side: the statements of list_files and read_file  *)
(* taken one at a time, those of different requests in any order            *)

\* entries the file system takes while several requests are under way
ConcEntries == { Absent, Dir, File(<<104, 105>>, 1, "r") }

\* what the clients send while several requests are under way
ConcFilenames ==
    { <<"test.txt">>, <<".secret">>, <<"..", "secret.txt">>, <<"sub">>, <<NulName>> }

\* the orders the directory hands out its names in while several requests are under way
ConcOrders ==
    { <<"test.txt", ".secret", "sub", "lnk">>, <<"lnk", "sub", ".secret", "test.txt">> }

UnderWay(rq) == rq.pc \notin {"free", "resolve", "enumerate", "done"}

\* request s takes one step to frame next; the requests under way beside it
\* have now had a step of another request between two of their own
Step(s, next) ==
    /\ reqs' = [t \in Slots |->
                  IF t = s THEN next
                  ELSE IF UnderWay(reqs[t]) THEN [reqs[t] EXCEPT !.mixed = TRUE]
                  ELSE reqs[t]]
    /\ UNCHANGED <<phase, BASE_DIR, fs, call, outcome, shadow, memo>>

\* the function returns: o through the except clause (lines 19-20, 38-39)
Finish(rq, o) == [rq EXCEPT !.pc = "done", !.result = except_Exception(o)]

\* a variable target_path of the module, shared by the requests: it holds
\* what the highest request that has resolved a name has put there
target_path_shared(rs, s) ==
    IF \A t \in Slots : rs[t].target_path = Unset THEN rs[s].target_path
    ELSE rs[CHOOSE t \in Slots :
               /\ rs[t].target_path # Unset
               /\ \A u \in Slots : rs[u].target_path # Unset => u <= t].target_path

\* the local variable target_path of request s (line 25)
target_path(rs, s) == rs[s].target_path

\* the transport starts read_file(filename) (server.py line 14)
StartRead(s) ==
    /\ phase = "ready"
    /\ call = NoCall
    /\ reqs[s] = Free
    /\ \E filename \in ConcFilenames :
          reqs' = [reqs EXCEPT ![s] = Frame("read", filename, "resolve")]
    /\ UNCHANGED <<phase, BASE_DIR, fs, call, outcome, shadow, memo>>

\* line 25: target_path = (BASE_DIR / filename).resolve()
AfterResolve(rq, r) ==
    IF ~r.ok THEN Finish(rq, Raise(r.exc, <<"resolve">>))
    ELSE [rq EXCEPT !.pc = "check", !.target_path = r.path]

ResolveStep(s) ==
    /\ reqs[s].pc = "resolve"
    /\ Step(s, AfterResolve(reqs[s], resolve(fs, Join(BASE_DIR, reqs[s].filename))))

\* lines 28-29: the containment check
AfterCheck(rq, tp) ==
    IF ~contained(BASE_DIR, tp)
    THEN Finish(rq, Return([error |-> "Access denied"], <<"resolve", "parents">>))
    ELSE [rq EXCEPT !.pc = "read"]

CheckStep(s) ==
    /\ reqs[s].pc = "check"
    /\ Step(s, AfterCheck(reqs[s], target_path(reqs, s)))

\* line 32: target_path.read_text(encoding="utf-8")
AfterRead(rq, c) ==
    IF ~c.ok THEN Finish(rq, Raise(c.exc, <<"resolve", "parents", "read_text">>))
    ELSE [rq EXCEPT !.pc = "size", !.content = c.text]

ReadStep(s) ==
    /\ reqs[s].pc = "read"
    /\ Step(s, AfterRead(reqs[s], read_text(fs, target_path(reqs, s))))

\* line 34: target_path.stat().st_size
AfterSize(rq, tp, st) ==
    IF st.err # "OK"
    THEN Finish(rq, Raise(OSErrorOf(st.err, tp), <<"resolve", "parents", "read_text", "stat">>))
    ELSE [rq EXCEPT !.pc = "mtime", !.size = st_size(st.node)]

SizeStep(s) ==
    /\ reqs[s].pc = "size"
    /\ Step(s, AfterSize(reqs[s], target_path(reqs, s), stat(fs, target_path(reqs, s))))

\* line 35: target_path.stat().st_mtime, and the envelope of lines 31-37
AfterMtime(rq, tp, st) ==
    IF st.err # "OK"
    THEN Finish(rq, Raise(OSErrorOf(st.err, tp),
                          <<"resolve", "parents", "read_text", "stat", "stat">>))
    ELSE Finish(rq, Return([content |-> rq.content,
                            metadata |-> [size |-> rq.size, modified |-> st_mtime(st.node)]],
                           <<"resolve", "parents", "read_text", "stat", "stat">>))

MtimeStep(s) ==
    /\ reqs[s].pc = "mtime"
    /\ Step(s, AfterMtime(reqs[s], target_path(reqs, s), stat(fs, target_path(reqs, s))))

\* the transport starts list_files() (server.py line 9)
StartList(s) ==
    /\ phase = "ready"
    /\ call = NoCall
    /\ reqs[s] = Free
    /\ reqs' = [reqs EXCEPT ![s] = Frame("list", <<>>, "enumerate")]
    /\ UNCHANGED <<phase, BASE_DIR, fs, call, outcome, shadow, memo>>

\* the comprehension of lines 14-17 goes on to its next name, or is complete
Continue(rq) ==
    IF rq.names = <<>>
    THEN Finish(rq, Return([files |-> rq.files], <<"iterdir", "is_file">>))
    ELSE [rq EXCEPT !.pc = "filter"]

\* line 15: BASE_DIR.iterdir()
AfterEnumerate(rq, it) ==
    IF ~it.ok THEN Finish(rq, Raise(it.exc, <<"iterdir">>))
    ELSE Continue([rq EXCEPT !.names = it.names])

EnumerateStep(s) ==
    /\ reqs[s].pc = "enumerate"
    /\ \E order \in ConcOrders : Step(s, AfterEnumerate(reqs[s], iterdir(fs, BASE_DIR, order)))

\* line 16: f.is_file() and not f.name.startswith('.') for the next name n
AfterFilter(rq, n, t) ==
    IF ~t.ok THEN Finish(rq, Raise(t.exc, <<"iterdir", "is_file">>))
    ELSE Continue([rq EXCEPT !.names = Tail(@),
                             !.files = @ \o (IF t.value /\ ~startswith_dot(n)
                                             THEN <<n>> ELSE <<>>)])

FilterStep(s) ==
    /\ reqs[s].pc = "filter"
    /\ Step(s, AfterFilter(reqs[s], Head(reqs[s].names),
                           is_file(fs, BASE_DIR \o <<Head(reqs[s].names)>>)))

\* the transport takes the response of request s
Respond(s) ==
    /\ reqs[s].pc = "done"
    /\ reqs' = [reqs EXCEPT ![s] = Free]
    /\ UNCHANGED <<phase, BASE_DIR, fs, call, outcome, shadow, memo>>

NextConc ==
    \/ Initialize
    \/ MakeRoot
    \/ RemoveRoot
    \/ WriteChild(ConcEntries)
    \/ WriteOutside(ConcEntries)
    \/ \E s \in Slots : StartRead(s)
    \/ \E s \in Slots : ResolveStep(s)
    \/ \E s \in Slots : CheckStep(s)
    \/ \E s \in Slots : ReadStep(s)
    \/ \E s \in Slots : SizeStep(s)
    \/ \E s \in Slots : MtimeStep(s)
    \/ \E s \in Slots : StartList(s)
    \/ \E s \in Slots : EnumerateStep(s)
    \/ \E s \in Slots : FilterStep(s)
    \/ \E s \in Slots : Respond(s)

SpecConc == Init /\ [][NextConc]_vars

-----------------------------------------------------------------------------
(* Properties *)

Range(q) == { q[i] : i \in DOMAIN q }

\* p lies strictly below base
Descends(base, p) == Len(p) > Len(base) /\ SubSeq(p, 1, Len(base)) = base

\* the resolved path of root/filename of the request being answered
Target == resolve(fs, Join(BASE_DIR, call.filename))

Reading == call.op = "read"
Listing == call.op = "list"

\* the request names a path that resolves, and not to a strict descendant of the root
Escaping == Reading /\ Target.ok /\ ~Descends(BASE_DIR, Target.path)

Denied == [error |-> "Access denied"]

IsError(v) == DOMAIN v = {"error"} /\ v.error \in STRING
IsListSuccess(v) == DOMAIN v = {"files"}
IsReadSuccess(v) ==
    DOMAIN v = {"content", "metadata"} /\ DOMAIN v.metadata = {"size", "modified"}

\* C1: a read whose resolved path is not a strict descendant of the root returns
\* exactly {"error": "Access denied"} and neither reads nor stats the target.
C1_Containment ==
    Escaping =>
        /\ outcome.kind = "return"
        /\ outcome.value = Denied
        /\ "read_text" \notin Range(outcome.ops)
        /\ "stat" \notin Range(outcome.ops)

\* an in-root symbolic link to an existing outside file was asked for and denied
C1_Witness ==
    /\ call = [op |-> "read", filename |-> <<"lnk">>]
    /\ fs.root = "dir" /\ fs.child["lnk"] = LinkOut /\ fs.out.kind = "file"
    /\ Target.path = OutsidePath
    /\ outcome.value = Denied

\* C2: on two file systems that agree inside the root and differ outside it, a
\* read that escapes the root in both returns the same envelope in both.
C2_NoOracle ==
    (Escaping /\ shadow.escapes) =>
        /\ outcome.kind = shadow.outcome.kind
        /\ outcome.kind = "return" => outcome.value = shadow.outcome.value

\* the outside file exists here and not on the other file system, and both deny
C2_Witness ==
    /\ call = [op |-> "read", filename |-> <<"..", "secret.txt">>]
    /\ fs.out.kind = "file" /\ ~shadow.present /\ shadow.escapes
    /\ outcome.value = Denied /\ shadow.outcome.value = Denied

\* C3: list_files() and read_file(filename) always return an envelope; no
\* exception leaves either operation.
C3_NoRaise ==
    (Listing \/ Reading) =>
        /\ outcome.kind = "return"
        /\ \/ "error" \in DOMAIN outcome.value
           \/ "files" \in DOMAIN outcome.value
           \/ "content" \in DOMAIN outcome.value

\* a file that is not UTF-8 was read: the decoder's ValueError came back as an envelope
C3_Witness ==
    /\ call = [op |-> "read", filename |-> <<"test.txt">>]
    /\ fs.root = "dir" /\ fs.child["test.txt"].kind = "file"
    /\ fs.child["test.txt"].bytes = <<255>>
    /\ outcome.kind = "return" /\ IsError(outcome.value)

\* C4: every returned value is either a success payload ("files"; or "content"
\* with "metadata" holding "size" and "modified") or an error payload ("error",
\* a string), never both and never neither.
C4_OneShape ==
    /\ (Listing /\ outcome.kind = "return") =>
          (IsListSuccess(outcome.value) /\ "error" \notin DOMAIN outcome.value)
          \/ (IsError(outcome.value) /\ "files" \notin DOMAIN outcome.value)
    /\ (Reading /\ outcome.kind = "return") =>
          (IsReadSuccess(outcome.value) /\ "error" \notin DOMAIN outcome.value)
          \/ (IsError(outcome.value) /\ DOMAIN outcome.value \cap {"content", "metadata"} = {})

\* a listing failed on a missing root and came back as an error payload only
C4_Witness ==
    /\ Listing /\ fs.root = "missing"
    /\ outcome.kind = "return" /\ DOMAIN outcome.value = {"error"}

\* the entry the request names by a bare name directly under the root
NamedChild ==
    IF Reading /\ fs.root = "dir" /\ Len(call.filename) = 1 /\ call.filename[1] \in ChildNames
    THEN fs.child[call.filename[1]]
    ELSE Absent

\* a regular file that can be opened and whose bytes are the UTF-8 encoding of a text
IsUtf8File(e) == e.kind = "file" /\ e.mode = "r" /\ decode(e.bytes).ok

\* the text whose UTF-8 encoding the file e holds
TextIn(e) == decode(e.bytes).text

\* str.encode("utf-8") for code points below 2048
RECURSIVE encode(_)
encode(t) ==
    IF t = <<>> THEN <<>>
    ELSE IF t[1] < 128 THEN <<t[1]>> \o encode(Tail(t))
    ELSE <<192 + (t[1] \div 64), 128 + (t[1] % 64)>> \o encode(Tail(t))

\* C5: reading a regular file directly under the root whose bytes encode the text
\* C returns content C, size the number of bytes of C's encoding, and modified
\* the file's modification time.
C5_RoundTrip ==
    (IsUtf8File(NamedChild) /\ encode(TextIn(NamedChild)) = NamedChild.bytes) =>
        /\ outcome.kind = "return"
        /\ outcome.value =
              [content |-> TextIn(NamedChild),
               metadata |-> [size |-> Len(encode(TextIn(NamedChild))),
                             modified |-> NamedChild.mtime]]

\* what stat finds at the direct child n of the root
ChildStat(n) == stat(fs, BASE_DIR \o <<n>>)

\* the direct children of the root that are regular files (as stat sees them,
\* so a link to a regular file counts) and not hidden
VisibleFiles ==
    { n \in ChildNames : ChildStat(n).err = "OK" /\ ChildStat(n).node.kind = "file"
                         /\ n \notin DotNames }

\* C6: whenever the root can be enumerated, list_files() returns a success
\* envelope whose "files" holds exactly the visible regular files directly under
\* the root, each once; an empty root gives {"files": []}.
C6_Listing ==
    (Listing /\ fs.root = "dir") =>
        /\ outcome.kind = "return"
        /\ IsListSuccess(outcome.value)
        /\ Range(outcome.value.files) = VisibleFiles
        /\ Len(outcome.value.files) = Cardinality(VisibleFiles)

\* C7: initialisation completes only if the configured root is an existing
\* directory; otherwise it fails at once.
C7_FailFast == [][(phase = "boot" /\ phase' = "ready") => fs.root = "dir"]_vars

Hidden == fs.child[".secret"]

TargetNode == Lstat(fs, Target.path)

\* C9: a read whose resolved path is strictly inside the root and either does not
\* exist or is not a regular file returns an error envelope.
C9_NotAFile ==
    (Reading /\ Target.ok /\ Descends(BASE_DIR, Target.path)
       /\ (TargetNode.err # "OK" \/ TargetNode.node.kind # "file")) =>
        /\ outcome.kind = "return"
        /\ IsError(outcome.value)

\* two outcomes of one request agree: the same files as a set, else the same value
SameResult(a, b) ==
    /\ a.kind = b.kind
    /\ a.kind = "return" =>
          IF "files" \in DOMAIN a.value /\ "files" \in DOMAIN b.value
          THEN /\ Range(a.value.files) = Range(b.value.files)
               /\ Len(a.value.files) = Len(b.value.files)
          ELSE a.value = b.value

ServedAlone(rq) ==
    IF rq.op = "list" THEN { list_files(fs, BASE_DIR, order) : order \in ConcOrders }
    ELSE { read_file(fs, BASE_DIR, rq.filename) }

AsAlone(rq) ==
    \E a \in ServedAlone(rq) :
        /\ a.kind = rq.result.kind
        /\ a.kind = "return" => a.value = rq.result.value

Returned == { s \in Slots : reqs[s].pc = "done" }

\* C11: however the steps (resolve, containment check, read content, stat
\* size, stat mtime, enumerate, filter) of the list_files() and read_file(f)
\* requests served side by side are interleaved, every request that has
\* returned holds the envelope it returns when it is served alone, and no step
\* of a request changes BASE_DIR or the file system.
C11_Isolation ==
    /\ [](\A s \in Returned : AsAlone(reqs[s]))
    /\ [][reqs' # reqs => (BASE_DIR' = BASE_DIR /\ fs' = fs)]_vars

\* a read of test.txt has returned its content and a listing has returned
\* test.txt, each with steps of the other between its own
C11_Witness ==
    \E s, t \in Slots :
        /\ reqs[s].pc = "done" /\ reqs[s].mixed
        /\ reqs[s].op = "read" /\ reqs[s].filename = <<"test.txt">>
        /\ IsReadSuccess(reqs[s].result.value)
        /\ reqs[t].pc = "done" /\ reqs[t].mixed
        /\ reqs[t].op = "list"
        /\ IsListSuccess(reqs[t].result.value)
        /\ "test.txt" \in Range(reqs[t].result.value.files)

====
